---- MODULE Spec2Model ----
(***************************************************************************)
(* State-machine model of the barbershop booking server:                   *)
(*   - the appointments / training routers   (src/server/routers.ts)       *)
(*   - the store helpers                     (src/server/db.ts)            *)
(*   - the stripe router                     (src/unnamed/part_000)        *)
(*   - the Stripe webhook reconciler         (src/server/stripe-webhook.ts)*)
(*   - the service catalog                   (src/server/products.ts)      *)
(* Every request handler is one action.  The columns of a row that no      *)
(* modelled handler reads (service, duration, scheduledAt, barberName,     *)
(* notes, timestamps) are left out of the row.                             *)
(***************************************************************************)
EXTENDS Integers, Sequences, FiniteSets, TLC

\* ---------------------------------------------------------------- bounds
\* rows the appointments table may hold
MaxAppointments == 2
\* checkout-session ids the payment provider hands out / events carry
MaxSessions == 2
\* payment-intent (and charge) ids carried by events
MaxIntents == 1
\* rows the training_examples table may hold
MaxExamples == 2
\* createCheckoutSession calls in flight at once
MaxCalls == 2
\* amounts in minor units that are formatted
MaxPrice == 1100
\* rows the conversations table may hold
MaxConversations == 2
\* rows the messages table may hold
MaxMessages == 2
\* seconds the store's clock may advance
MaxClock == 1

\* ------------------------------------------------------------ vocabulary
\* SQL NULL of a nullable id / price column (ids and prices are positive)
NULL == 0

Users == {1, 2}

\* users.role: user 2 is the administrator
Role(u) == IF u = 2 THEN "admin" ELSE "user"

AppointmentStatus == {"confirmed", "pending", "completed", "cancelled"}

PaymentStatus == {"pending", "completed", "failed", "refunded"}

Quality == {"excellent", "good", "acceptable", "poor"}

\* an optional string is the empty set (null / undefined) or a singleton
\* holding the string as a sequence of characters
Absent == {}

Some(s) == {s}

\* ---------------------------------------------------------------- catalog
BARBERSHOP_SERVICES ==
  { [id |-> "haircut",      price |-> 2500, currency |-> "usd", duration |-> 30],
    [id |-> "hair_eyebrow", price |-> 3000, currency |-> "usd", duration |-> 45],
    [id |-> "full_service", price |-> 4000, currency |-> "usd", duration |-> 60] }

\* the set holding the service with that id, empty when find() gives undefined
getServiceById(id) == { s \in BARBERSHOP_SERVICES : s.id = id }

\* service ids the callers send: one of the catalog and one unknown
ServiceInputs == {"full_service", "beard"}

\* ------------------------------------------------------------- parseInt
Digits == <<"0", "1", "2", "3", "4", "5", "6", "7", "8", "9">>

IsDigit(c) == \E i \in 1..10 : Digits[i] = c

DigitValue(c) == (CHOOSE i \in 1..10 : Digits[i] = c) - 1

IsSpace(c) == c = " "

RECURSIVE SkipSpaces(_)
SkipSpaces(s) ==
  IF s # <<>> /\ IsSpace(Head(s)) THEN SkipSpaces(Tail(s)) ELSE s

\* the value of the longest prefix of digits, continuing from acc
RECURSIVE ParseDigits(_, _)
ParseDigits(s, acc) ==
  IF s # <<>> /\ IsDigit(Head(s))
    THEN ParseDigits(Tail(s), 10 * acc + DigitValue(Head(s)))
    ELSE acc

\* JavaScript parseInt(string) for decimal input: leading blanks are skipped,
\* an optional sign is read, then the longest run of digits; NaN when there
\* is no digit.  The result is [nan, val].
parseInt(str) ==
  LET t    == SkipSpaces(str)
      neg  == t # <<>> /\ Head(t) = "-"
      sgn  == t # <<>> /\ Head(t) \in {"-", "+"}
      body == IF sgn THEN Tail(t) ELSE t
  IN IF body = <<>> \/ ~IsDigit(Head(body))
       THEN [nan |-> TRUE, val |-> 0]
       ELSE [nan |-> FALSE,
             val |-> IF neg THEN 0 - ParseDigits(body, 0) ELSE ParseDigits(body, 0)]

\* mutant: a missing key falls back to "1", the id of the first row
OrZero_FirstRow(opt) ==
  IF opt = Absent \/ opt = Some(<<>>) THEN <<"1">> ELSE CHOOSE s \in opt : TRUE

\* JavaScript  x || "0"  on an optional string: null, undefined and "" are falsy
OrZero(opt) ==
  IF opt = Absent \/ opt = Some(<<>>) THEN <<"0">> ELSE CHOOSE s \in opt : TRUE

\* JavaScript  !n  on a number: 0 and NaN are falsy
Falsy(n) == n.nan \/ n.val = 0

\* id.toString() of a positive id below ten
toString(n) == <<Digits[n + 1]>>

\* ------------------------------------------------------------ formatPrice
\* the decimal digits of a natural number, as String(n) writes them
RECURSIVE DecimalString(_)
DecimalString(n) ==
  IF n < 10 THEN <<Digits[n + 1]>>
  ELSE DecimalString(n \div 10) \o <<Digits[(n % 10) + 1]>>

Zeros(k) == [i \in 1..k |-> "0"]

\* mutant: the digit string is split without being padded first
toFixed_NoPad(n, f) ==
  LET m == DecimalString(n)
      k == Len(m)
  IN IF k <= f THEN <<"0", ".">> \o m
     ELSE SubSeq(m, 1, k - f) \o <<".">> \o SubSeq(m, k - f + 1, k)

\* Number.prototype.toFixed(f), f > 0, of the number whose nearest multiple
\* of 10^-f is n / 10^f: the digits of n, padded on the left with zeros to
\* f + 1 digits, with the point before the last f digits
toFixed(n, f) ==
  LET d == DecimalString(n)
      m == IF Len(d) <= f THEN Zeros(f + 1 - Len(d)) \o d ELSE d
      k == Len(m)
  IN SubSeq(m, 1, k - f) \o <<".">> \o SubSeq(m, k - f + 1, k)

\* `$${(priceInCents / 100).toFixed(2)}`: the quotient of an amount of the
\* int column is, of all multiples of 0.01, nearest to priceInCents / 100
formatPrice(priceInCents) == <<"$">> \o toFixed(priceInCents, 2)

\* ------------------------------------------------------------------ state
VARIABLES
  dbAvailable,       \* getDb() gives a handle (DATABASE_URL is configured)
  appointments,      \* the appointments table: row i has id i
  applied,           \* per appointment: the webhook events applied to the row
                     \* since the last write by another operation (history)
  userCustomer,      \* users.stripeCustomerId
  stripeCustomers,   \* payment provider: the user each customer was created for
  stripeSessions,    \* payment provider: the checkout sessions created
  trainingExamples,  \* the training_examples table: row i has id i
  calls,             \* createCheckoutSession calls that are between two awaits
  conversations,     \* the conversations table: row i has id i
  messages,          \* the messages table: row i has id i
  now,               \* the store's clock, in the seconds a timestamp column keeps
  page,              \* the Chat page open in a browser
  outbox,            \* payment provider: the events it has sent, and whether
                     \* a delivery was answered 2xx (acked)
  last               \* the last request handled and its response

vars == <<dbAvailable, appointments, applied, userCustomer, stripeCustomers,
          stripeSessions, trainingExamples, calls, conversations, messages,
          now, page, outbox, last>>

\* the chat tables, their clock and the Chat page
chatVars == <<conversations, messages, now, page>>

\* mutant: an inserted appointment is confirmed from the start
NewAppointment_Confirmed(userId) ==
  [ userId                  |-> userId,
    status                  |-> "confirmed",
    paymentStatus           |-> "pending",
    stripePaymentIntentId   |-> NULL,
    stripeCheckoutSessionId |-> NULL,
    priceInCents            |-> NULL ]

\* the appointments row a fresh INSERT stores for that owner: the column
\* defaults of the schema fill what createAppointment does not supply
NewAppointment(userId) ==
  [ userId                  |-> userId,
    status                  |-> "pending",
    paymentStatus           |-> "pending",
    stripePaymentIntentId   |-> NULL,
    stripeCheckoutSessionId |-> NULL,
    priceInCents            |-> NULL ]

NoHistory == [cs |-> NULL, pi |-> NULL, type |-> "", object |-> NULL]

Response(op, status, body) == [op |-> op, status |-> status, body |-> body]

\* no Chat page is open
ClosedPage == [open |-> FALSE]

Init ==
  /\ dbAvailable \in BOOLEAN
  /\ appointments = <<>>
  /\ applied = <<>>
  /\ userCustomer = [u \in Users |-> NULL]
  /\ stripeCustomers = <<>>
  /\ stripeSessions = <<>>
  /\ trainingExamples = <<>>
  /\ calls = {}
  /\ conversations = <<>>
  /\ messages = <<>>
  /\ now = 0
  /\ page = ClosedPage
  /\ outbox = {}
  /\ last = Response("boot", 0, "")

Rows(table) == {table[i] : i \in DOMAIN table}

\* UPDATE table SET ... WHERE id = <id>: the row with that id, if any, is
\* replaced by Set[row]; every other row is untouched
UpdateWhere(table, id, Set) ==
  [i \in DOMAIN table |-> IF i = id THEN Set[table[i]] ELSE table[i]]

\* ---------------------------------------------------------------- webhook
webhookSecret == "whsec_configured"

\* the stripe-signature header value for a payload signed with a secret
Sign(secret, payload) == [secret |-> secret, payload |-> payload]

\* stripe.webhooks.constructEvent(body, signature, secret): gives the event
\* of the raw body when the signature was computed with the secret over
\* exactly that body, and throws otherwise (here: Absent)
constructEvent(body, signature, secret) ==
  IF signature.secret = secret /\ signature.payload = body
    THEN Some(body)
    ELSE Absent

startsWith(s, prefix) ==
  Len(s) >= Len(prefix) /\ SubSeq(s, 1, Len(prefix)) = prefix

EvtTestPrefix == <<"e", "v", "t", "_", "t", "e", "s", "t", "_">>

\* what a per-event handler did: the table afterwards and the id its UPDATE
\* was issued for (NULL when no UPDATE completed)
Handled(table, wrote) == [table |-> table, wrote |-> wrote]

\* mutant: the UPDATE leaves the lifecycle status alone
SetCheckoutCompleted_NoStatus(session, row) ==
  [row EXCEPT !.paymentStatus = "completed",
              !.stripeCheckoutSessionId = session.id]

\* mutant: a compare-and-swap, the UPDATE only touches a pending payment
SetCheckoutCompleted_IfPending(session, row) ==
  IF row.paymentStatus # "pending" THEN row
  ELSE [row EXCEPT !.paymentStatus = "completed",
                   !.stripeCheckoutSessionId = session.id,
                   !.status = "confirmed"]

SetCheckoutCompleted(session, row) ==
  [row EXCEPT !.paymentStatus = "completed",
              !.stripeCheckoutSessionId = session.id,
              !.status = "confirmed"]

\* mutant: the UPDATE is filtered by the session's own id
handleCheckoutSessionCompleted_BySessionId(db, table, session, ok) ==
  IF ~db THEN Handled(table, NULL)
  ELSE LET appointmentId == parseInt(OrZero(session.client_reference_id))
       IN IF Falsy(appointmentId) THEN Handled(table, NULL)
          ELSE IF ~ok THEN Handled(table, NULL)
          ELSE Handled(UpdateWhere(table, session.id,
                                   [row \in Rows(table) |-> SetCheckoutCompleted(session, row)]),
                       session.id)

handleCheckoutSessionCompleted(db, table, session, ok) ==
  IF ~db THEN Handled(table, NULL)
  ELSE LET appointmentId == parseInt(OrZero(session.client_reference_id))
       IN IF Falsy(appointmentId) THEN Handled(table, NULL)
          ELSE IF ~ok THEN Handled(table, NULL)
          ELSE Handled(UpdateWhere(table, appointmentId.val,
                                   [row \in Rows(table) |-> SetCheckoutCompleted(session, row)]),
                       appointmentId.val)

\* mutant: each delivery moves the lifecycle one step on
SetIntentSucceeded_Advance(paymentIntent, row) ==
  [row EXCEPT !.paymentStatus = "completed",
              !.stripePaymentIntentId = paymentIntent.id,
              !.status = IF row.status = "confirmed" THEN "completed"
                         ELSE "confirmed"]

SetIntentSucceeded(paymentIntent, row) ==
  [row EXCEPT !.paymentStatus = "completed",
              !.stripePaymentIntentId = paymentIntent.id,
              !.status = "confirmed"]

handlePaymentIntentSucceeded(db, table, paymentIntent, ok) ==
  IF ~db THEN Handled(table, NULL)
  ELSE LET appointmentId == parseInt(OrZero(paymentIntent.appointment_id))
       IN IF Falsy(appointmentId) THEN Handled(table, NULL)
          ELSE IF ~ok THEN Handled(table, NULL)
          ELSE Handled(UpdateWhere(table, appointmentId.val,
                                   [row \in Rows(table) |-> SetIntentSucceeded(paymentIntent, row)]),
                       appointmentId.val)

\* mutant: a failed payment also cancels the appointment
SetIntentFailed_Cancels(paymentIntent, row) ==
  [row EXCEPT !.paymentStatus = "failed",
              !.stripePaymentIntentId = paymentIntent.id,
              !.status = "cancelled"]

\* mutant: a failed payment reopens the appointment
SetIntentFailed_Reopens(paymentIntent, row) ==
  [row EXCEPT !.paymentStatus = "failed",
              !.stripePaymentIntentId = paymentIntent.id,
              !.status = "pending"]

SetIntentFailed(paymentIntent, row) ==
  [row EXCEPT !.paymentStatus = "failed",
              !.stripePaymentIntentId = paymentIntent.id]

handlePaymentIntentFailed(db, table, paymentIntent, ok) ==
  IF ~db THEN Handled(table, NULL)
  ELSE LET appointmentId == parseInt(OrZero(paymentIntent.appointment_id))
       IN IF Falsy(appointmentId) THEN Handled(table, NULL)
          ELSE IF ~ok THEN Handled(table, NULL)
          ELSE Handled(UpdateWhere(table, appointmentId.val,
                                   [row \in Rows(table) |-> SetIntentFailed(paymentIntent, row)]),
                       appointmentId.val)

\* mutant: a refund also forgets the payment intent
SetChargeRefunded_ClearsIntent(charge, row) ==
  [row EXCEPT !.paymentStatus = "refunded", !.status = "cancelled",
              !.stripePaymentIntentId = NULL]

SetChargeRefunded(charge, row) ==
  [row EXCEPT !.paymentStatus = "refunded", !.status = "cancelled"]

handleChargeRefunded(db, table, charge, ok) ==
  IF ~db THEN Handled(table, NULL)
  ELSE LET appointmentId == parseInt(OrZero(charge.appointment_id))
       IN IF Falsy(appointmentId) THEN Handled(table, NULL)
          ELSE IF ~ok THEN Handled(table, NULL)
          ELSE Handled(UpdateWhere(table, appointmentId.val,
                                   [row \in Rows(table) |-> SetChargeRefunded(charge, row)]),
                       appointmentId.val)

\* mutant: the default branch treats the event as a succeeded payment
Dispatch_DefaultSucceeds(db, table, event, ok) ==
  CASE event.type = "checkout.session.completed" ->
         handleCheckoutSessionCompleted(db, table, event.object, ok)
    [] event.type = "payment_intent.payment_failed" ->
         handlePaymentIntentFailed(db, table, event.object, ok)
    [] event.type = "charge.refunded" ->
         handleChargeRefunded(db, table, event.object, ok)
    [] OTHER -> handlePaymentIntentSucceeded(db, table, event.object, ok)

\* the switch on event.type
Dispatch(db, table, event, ok) ==
  CASE event.type = "checkout.session.completed" ->
         handleCheckoutSessionCompleted(db, table, event.object, ok)
    [] event.type = "payment_intent.succeeded" ->
         handlePaymentIntentSucceeded(db, table, event.object, ok)
    [] event.type = "payment_intent.payment_failed" ->
         handlePaymentIntentFailed(db, table, event.object, ok)
    [] event.type = "charge.refunded" ->
         handleChargeRefunded(db, table, event.object, ok)
    [] OTHER -> Handled(table, NULL)

\* mutant: a failed verification is logged and the body is processed anyway
WebhookResult_Unverified(db, table, req, ok) ==
  IF req.signature = Absent
    THEN [status |-> 400, body |-> "error", event |-> Absent,
          did |-> Handled(table, NULL)]
  ELSE LET event == req.body
       IN IF startsWith(event.id, EvtTestPrefix)
            THEN [status |-> 200, body |-> "verified", event |-> Some(event),
                  did |-> Handled(table, NULL)]
            ELSE [status |-> 200, body |-> "received", event |-> Some(event),
                  did |-> Dispatch(db, table, event, ok)]

\* mutant: the test-event bypass is taken before the signature is verified
WebhookResult_TestFirst(db, table, req, ok) ==
  IF startsWith(req.body.id, EvtTestPrefix)
    THEN [status |-> 200, body |-> "verified", event |-> Some(req.body),
          did |-> Handled(table, NULL)]
  ELSE IF req.signature = Absent
    THEN [status |-> 400, body |-> "error", event |-> Absent,
          did |-> Handled(table, NULL)]
  ELSE LET signature == CHOOSE h \in req.signature : TRUE
           verified  == constructEvent(req.body, signature, webhookSecret)
       IN IF verified = Absent
            THEN [status |-> 400, body |-> "error", event |-> Absent,
                  did |-> Handled(table, NULL)]
            ELSE [status |-> 200, body |-> "received", event |-> verified,
                  did |-> Dispatch(db, table, CHOOSE e \in verified : TRUE, ok)]

\* mutant: the handler rethrows the error of its UPDATE, which the outer
\* catch answers with 500
WebhookResult_Rethrows(db, table, req, ok) ==
  IF req.signature = Absent
    THEN [status |-> 400, body |-> "error", event |-> Absent,
          did |-> Handled(table, NULL)]
  ELSE LET signature == CHOOSE h \in req.signature : TRUE
           verified  == constructEvent(req.body, signature, webhookSecret)
       IN IF verified = Absent
            THEN [status |-> 400, body |-> "error", event |-> Absent,
                  did |-> Handled(table, NULL)]
          ELSE LET event == CHOOSE e \in verified : TRUE
               IN IF startsWith(event.id, EvtTestPrefix)
                    THEN [status |-> 200, body |-> "verified", event |-> verified,
                          did |-> Handled(table, NULL)]
                  ELSE IF ~ok
                    THEN [status |-> 500, body |-> "error", event |-> verified,
                          did |-> Handled(table, NULL)]
                    ELSE [status |-> 200, body |-> "received", event |-> verified,
                          did |-> Dispatch(db, table, event, ok)]

\* handleStripeWebhook as a function of the request: the response sent and
\* what the dispatched handler did; event is the verified event, Absent when
\* the request was rejected before an event existed
WebhookResult(db, table, req, ok) ==
  IF req.signature = Absent
    THEN [status |-> 400, body |-> "error", event |-> Absent,
          did |-> Handled(table, NULL)]
  ELSE LET signature == CHOOSE h \in req.signature : TRUE
           verified  == constructEvent(req.body, signature, webhookSecret)
       IN IF verified = Absent
            THEN [status |-> 400, body |-> "error", event |-> Absent,
                  did |-> Handled(table, NULL)]
          ELSE LET event == CHOOSE e \in verified : TRUE
               IN IF startsWith(event.id, EvtTestPrefix)
                    THEN [status |-> 200, body |-> "verified", event |-> verified,
                          did |-> Handled(table, NULL)]
                    ELSE [status |-> 200, body |-> "received", event |-> verified,
                          did |-> Dispatch(db, table, event, ok)]

\* mutant: the test-event branch answers and goes on to the switch
Sends_TestFallsThrough(db, table, req, ok) ==
  LET r == WebhookResult(db, table, req, ok)
  IN IF r.event # Absent /\ r.body = "verified"
       THEN <<[status |-> 200, body |-> "verified"],
              [status |-> 200, body |-> "received"]>>
       ELSE <<[status |-> r.status, body |-> r.body]>>

\* the res.json calls handleStripeWebhook makes for a request, in order, on
\* the path the request takes: each of the first three is in a return
\* statement, and the one after the switch ends the try block
Sends(db, table, req, ok) ==
  LET missing  == IF req.signature = Absent
                    THEN <<[status |-> 400, body |-> "error"]>> ELSE <<>>
      verified == IF missing # <<>> THEN Absent
                  ELSE constructEvent(req.body, CHOOSE h \in req.signature : TRUE,
                                      webhookSecret)
      invalid  == IF missing = <<>> /\ verified = Absent
                    THEN <<[status |-> 400, body |-> "error"]>> ELSE <<>>
      test     == IF verified # Absent
                     /\ startsWith((CHOOSE e \in verified : TRUE).id, EvtTestPrefix)
                    THEN <<[status |-> 200, body |-> "verified"]>> ELSE <<>>
      received == IF verified # Absent /\ test = <<>>
                    THEN <<[status |-> 200, body |-> "received"]>> ELSE <<>>
  IN missing \o invalid \o test \o received

\* ---------------------------------------------------- webhook deliveries
\* the appointment ids that mutating requests address; the rows with other
\* ids are bystanders that no request names
Targets == {1}

\* an id no row has
Nowhere == MaxAppointments + 1

\* correlation keys an event object may carry: absent, empty, zero, not a
\* number, a number followed by text, the id of no row, and the target ids
Keys ==
  {Absent, Some(<<>>), Some(<<"0">>), Some(<<"x">>), Some(<<"1", "x">>),
   Some(toString(Nowhere))}
    \cup {Some(toString(i)) : i \in Targets}

LiveId == <<"e", "v", "t", "_", "1">>

TestId == EvtTestPrefix \o <<"1">>

\* the keys the object with that Stripe id is sent with: every key for the
\* first object, the target ids for the others
KeysOf(o) == IF o = 1 THEN Keys ELSE {Some(toString(i)) : i \in Targets}

\* checkout sessions: the handler reads client_reference_id; one more object
\* carries the target in its metadata only
SessionObjects ==
  UNION { { [id |-> o, client_reference_id |-> k, appointment_id |-> Absent] :
              k \in KeysOf(o) } : o \in 1..MaxSessions }
    \cup
  { [id |-> 1, client_reference_id |-> Absent, appointment_id |-> Some(toString(i))] :
      i \in Targets }

\* payment intents and charges: the handlers read metadata.appointment_id
IntentObjects ==
  UNION { { [id |-> o, client_reference_id |-> Absent, appointment_id |-> k] :
              k \in KeysOf(o) } : o \in 1..MaxIntents }

HandledTypes ==
  {"checkout.session.completed", "payment_intent.succeeded",
   "payment_intent.payment_failed", "charge.refunded"}

\* the events with that id, of every type, whose object carries one of keys
EventsWith(id, keys) ==
  { [id |-> id, type |-> "checkout.session.completed", object |-> o] :
      o \in {x \in SessionObjects : x.client_reference_id \in keys} }
    \cup
  { [id |-> id, type |-> t, object |-> o] :
      t \in HandledTypes \ {"checkout.session.completed"},
      o \in {x \in IntentObjects : x.appointment_id \in keys} }
    \cup
  { [id |-> id, type |-> "customer.created", object |-> o] :
      o \in {x \in IntentObjects : x.appointment_id \in keys
                                     /\ x.appointment_id \in {Absent, Some(<<"1">>)}} }

TargetKeys == {Some(toString(i)) : i \in Targets}

\* the events of either id that are correlated to a target, one per type
Probes ==
  { e \in EventsWith(LiveId, TargetKeys) \cup EventsWith(TestId, TargetKeys) :
      e.object.id = 1 }

\* live events with every key, and test events correlated to a target
Events == EventsWith(LiveId, Keys) \cup Probes

\* a body that differs from the one the signature was computed over
Tampered(e) == [e EXCEPT !.object.id = e.object.id + 1]

Signed(e) == [body |-> e, signature |-> Some(Sign(webhookSecret, e))]

\* the probes that are also sent without a valid signature
Forged ==
  { e \in Probes : e.type \in {"checkout.session.completed", "charge.refunded"} }

\* the requests that reach the endpoint: properly signed ones, and for the
\* forged probes also unsigned ones, ones signed with another secret, and
\* ones signed properly but over another body
WebhookRequests ==
  { Signed(e) : e \in Events }
    \cup
  UNION { { [body |-> e, signature |-> Absent],
            [body |-> e, signature |-> Some(Sign("whsec_other", e))],
            [body |-> Tampered(e), signature |-> Some(Sign(webhookSecret, e))] } :
          e \in Forged }

\* the history of row w after the handler's UPDATE for that event completed
RecordApplied(hist, event, w) ==
  IF w \notin DOMAIN hist THEN hist
  ELSE [hist EXCEPT ![w] =
         CASE event.type = "checkout.session.completed" ->
                [cs |-> event.object.id, pi |-> hist[w].pi,
                 type |-> event.type, object |-> event.object.id]
           [] event.type = "payment_intent.succeeded" ->
                [cs |-> hist[w].cs, pi |-> event.object.id,
                 type |-> event.type, object |-> event.object.id]
           [] OTHER ->
                [cs |-> NULL, pi |-> NULL,
                 type |-> event.type, object |-> event.object.id]]

\* POST /api/stripe/webhook.  ok: the handler's UPDATE statement succeeds
\* (it can only fail where one is issued).  last records the response, the
\* id the UPDATE was issued for (issued), the row it changed (wrote) and
\* whether it failed, and the responses sent (sent).  The provider stops
\* redelivering an event once a delivery of it is answered 2xx.
StripeWebhook(req) ==
  \E done \in {WebhookResult(dbAvailable, appointments, req, TRUE)} :
  \E ok \in IF done.did.wrote # NULL THEN BOOLEAN ELSE {TRUE} :
  \E r \in {IF ok THEN done
            ELSE WebhookResult(dbAvailable, appointments, req, FALSE)} :
  \E ev \in {IF r.event = Absent THEN [type |-> "", object |-> [id |-> NULL]]
             ELSE CHOOSE e \in r.event : TRUE} :
  \E w \in {IF r.did.wrote \in DOMAIN appointments THEN r.did.wrote ELSE NULL} :
    /\ appointments' = r.did.table
    /\ applied' = RecordApplied(applied, ev, w)
    /\ last' = [op |-> "webhook", status |-> r.status, body |-> r.body,
                type |-> ev.type, wrote |-> w, issued |-> done.did.wrote,
                failed |-> ~ok,
                sent |-> Sends(dbAvailable, appointments, req, ok),
                dup |-> /\ w # NULL
                        /\ applied[w].type = ev.type
                        /\ applied[w].object = ev.object.id]
    /\ outbox' = { IF o.event = req.body /\ r.status = 200
                      THEN [o EXCEPT !.acked = TRUE] ELSE o : o \in outbox }
    /\ UNCHANGED <<dbAvailable, userCustomer, stripeCustomers, stripeSessions, trainingExamples, calls, chatVars>>

\* ------------------------------------------------------------ API results
Ok(op, caller, data) == [op |-> op, caller |-> caller, err |-> "", data |-> data]

Err(op, caller, err) == [op |-> op, caller |-> caller, err |-> err, data |-> {}]

\* ------------------------------------------------------ appointments router
\* db.ts createAppointment + routers.ts appointments.create
CreateAppointment(u) ==
  IF ~dbAvailable
    THEN /\ last' = Err("appointments.create", u, "Database not available")
         /\ UNCHANGED <<dbAvailable, appointments, applied, userCustomer, stripeCustomers, stripeSessions, trainingExamples, calls, chatVars, outbox>>
    ELSE /\ Len(appointments) < MaxAppointments
         /\ appointments' = Append(appointments, NewAppointment(u))
         /\ applied' = Append(applied, NoHistory)
         /\ last' = Ok("appointments.create", u, {Len(appointments) + 1})
         /\ UNCHANGED <<dbAvailable, userCustomer, stripeCustomers, stripeSessions, trainingExamples, calls, chatVars, outbox>>

\* db.ts getAppointmentsByUserId: the ids of the rows of that user
getAppointmentsByUserId(db, table, userId) ==
  IF ~db THEN {} ELSE {i \in DOMAIN table : table[i].userId = userId}

ListAppointments(u) ==
  /\ last' = Ok("appointments.list", u,
                getAppointmentsByUserId(dbAvailable, appointments, u))
  /\ UNCHANGED <<dbAvailable, appointments, applied, userCustomer, stripeCustomers, stripeSessions, trainingExamples, calls, chatVars, outbox>>

\* mutant: an update of the status also resets the payment status
updateAppointment_ResetsPayment(table, appointmentId, status) ==
  UpdateWhere(table, appointmentId,
              [row \in Rows(table) |->
                 IF status = Absent THEN row
                 ELSE [row EXCEPT !.status = CHOOSE s \in status : TRUE,
                                  !.paymentStatus = "pending"]])

\* db.ts updateAppointment: set(data) skips the keys whose value is undefined
\* and rejects a set with no key left
updateAppointment(table, appointmentId, status) ==
  UpdateWhere(table, appointmentId,
              [row \in Rows(table) |->
                 IF status = Absent THEN row
                 ELSE [row EXCEPT !.status = CHOOSE s \in status : TRUE]])

\* routers.ts appointments.update.  status: the optional status of the input;
\* scheduledAt: whether the input carries a scheduledAt
UpdateAppointment(u, appointmentId, status, scheduledAt) ==
  IF ~dbAvailable
    THEN /\ last' = Err("appointments.update", u, "Database not available")
         /\ UNCHANGED <<dbAvailable, appointments, applied, userCustomer, stripeCustomers, stripeSessions, trainingExamples, calls, chatVars, outbox>>
  ELSE IF status = Absent /\ ~scheduledAt
    THEN /\ last' = Err("appointments.update", u, "No values to set")
         /\ UNCHANGED <<dbAvailable, appointments, applied, userCustomer, stripeCustomers, stripeSessions, trainingExamples, calls, chatVars, outbox>>
  ELSE /\ appointments' = updateAppointment(appointments, appointmentId, status)
       /\ applied' = IF status # Absent /\ appointmentId \in DOMAIN applied
                       THEN [applied EXCEPT ![appointmentId] = NoHistory]
                       ELSE applied
       /\ last' = Ok("appointments.update", u, {appointmentId})
       /\ UNCHANGED <<dbAvailable, userCustomer, stripeCustomers, stripeSessions, trainingExamples, calls, chatVars, outbox>>

\* ------------------------------------------------------------ chat router
\* what a chat procedure answered: arg is the conversation id of its input
ChatOk(op, caller, arg, data) ==
  [op |-> op, caller |-> caller, arg |-> arg, err |-> "", data |-> data]

ChatErr(op, caller, arg, err) ==
  [op |-> op, caller |-> caller, arg |-> arg, err |-> err, data |-> <<>>]

\* db.ts createConversation + routers.ts chat.startConversation
StartConversation(u) ==
  IF ~dbAvailable
    THEN /\ last' = ChatErr("chat.startConversation", u, NULL,
                            "Database not available")
         /\ UNCHANGED <<dbAvailable, appointments, applied, userCustomer,
                        stripeCustomers, stripeSessions, trainingExamples,
                        calls, chatVars, outbox>>
    ELSE /\ Len(conversations) < MaxConversations
         /\ conversations' = Append(conversations,
                                    [userId |-> u, updatedAt |-> now])
         /\ last' = ChatOk("chat.startConversation", u, NULL,
                           <<Len(conversations) + 1>>)
         /\ UNCHANGED <<dbAvailable, appointments, applied, userCustomer,
                        stripeCustomers, stripeSessions, trainingExamples,
                        calls, messages, now, page, outbox>>

\* the orders in which a SELECT ... ORDER BY key may return the rows ids: every
\* arrangement in which the key does not decrease (desc: does not increase);
\* rows with equal keys come in an order the store chooses
Ordered(ids, key, desc) ==
  { q \in [1..Cardinality(ids) -> ids] :
      /\ \A i, j \in DOMAIN q : i # j => q[i] # q[j]
      /\ \A i, j \in DOMAIN q :
           i < j => IF desc THEN key[q[i]] >= key[q[j]]
                            ELSE key[q[i]] <= key[q[j]] }

\* db.ts getConversationsByUserId: the ids of that user's conversations,
\* most recently updated first
getConversationsByUserId(db, table, userId) ==
  IF ~db THEN {<<>>}
  ELSE Ordered({i \in DOMAIN table : table[i].userId = userId},
               [i \in DOMAIN table |-> table[i].updatedAt], TRUE)

\* routers.ts chat.getConversations
GetConversations(u) ==
  /\ \E list \in getConversationsByUserId(dbAvailable, conversations, u) :
       last' = ChatOk("chat.getConversations", u, NULL, list)
  /\ UNCHANGED <<dbAvailable, appointments, applied, userCustomer,
                 stripeCustomers, stripeSessions, trainingExamples, calls,
                 chatVars, outbox>>

\* db.ts getMessagesByConversationId: the ids of the messages of that
\* conversation, by createdAt ascending
getMessagesByConversationId(db, table, conversationId) ==
  IF ~db THEN {<<>>}
  ELSE Ordered({i \in DOMAIN table : table[i].conversationId = conversationId},
               [i \in DOMAIN table |-> table[i].createdAt], FALSE)

\* routers.ts chat.getMessages
GetMessages(u, conversationId) ==
  /\ \E list \in getMessagesByConversationId(dbAvailable, messages,
                                              conversationId) :
       last' = ChatOk("chat.getMessages", u, conversationId, list)
  /\ UNCHANGED <<dbAvailable, appointments, applied, userCustomer,
                 stripeCustomers, stripeSessions, trainingExamples, calls,
                 chatVars, outbox>>

\* db.ts addMessage + routers.ts chat.sendMessage: the INSERT is rejected by
\* the foreign key when no conversation has that id
SendMessage(u, conversationId, content) ==
  IF ~dbAvailable \/ conversationId \notin DOMAIN conversations
    THEN /\ last' = ChatErr("chat.sendMessage", u, conversationId,
                            IF ~dbAvailable THEN "Database not available"
                            ELSE "foreign key constraint fails")
         /\ UNCHANGED <<dbAvailable, appointments, applied, userCustomer,
                        stripeCustomers, stripeSessions, trainingExamples,
                        calls, chatVars, outbox>>
    ELSE /\ Len(messages) < MaxMessages
         /\ messages' = Append(messages,
                               [conversationId |-> conversationId,
                                role |-> "user", content |-> content,
                                createdAt |-> now])
         /\ last' = ChatOk("chat.sendMessage", u, conversationId,
                           <<Len(messages) + 1>>)
         /\ UNCHANGED <<dbAvailable, appointments, applied, userCustomer,
                        stripeCustomers, stripeSessions, trainingExamples,
                        calls, conversations, now, page, outbox>>

\* a second passes on the store's clock
Tick ==
  /\ now < MaxClock
  /\ now' = now + 1
  /\ last' = Response("tick", 0, "")
  /\ UNCHANGED <<dbAvailable, appointments, applied, userCustomer,
                 stripeCustomers, stripeSessions, trainingExamples, calls,
                 conversations, messages, page, outbox>>

\* ------------------------------------------------------------ stripe router
\* mutant: the first failing check with the catalog looked up before the
\* appointment
CheckoutError_ServiceFirst(db, table, u, appointmentId, serviceId) ==
  IF ~db THEN "Database not available"
  ELSE IF getServiceById(serviceId) = {} THEN "Service not found"
  ELSE IF appointmentId \notin DOMAIN table THEN "Appointment not found"
  ELSE IF table[appointmentId].userId # u THEN "Unauthorized"
  ELSE ""

\* the first failing check of createCheckoutSession, "" when all pass
CheckoutError(db, table, u, appointmentId, serviceId) ==
  IF ~db THEN "Database not available"
  ELSE IF appointmentId \notin DOMAIN table THEN "Appointment not found"
  ELSE IF table[appointmentId].userId # u THEN "Unauthorized"
  ELSE IF getServiceById(serviceId) = {} THEN "Service not found"
  ELSE ""

\* mutant: the UPDATE stores the session id without the price
SetCheckoutSession_NoPrice(session, service, row) ==
  [row EXCEPT !.stripeCheckoutSessionId = session.id]

\* mutant: creating the session already confirms the appointment
SetCheckoutSession_Confirms(session, service, row) ==
  [row EXCEPT !.stripeCheckoutSessionId = session.id,
              !.priceInCents = service.price,
              !.status = "confirmed"]

\* the UPDATE that stamps the appointment with the session and the price
SetCheckoutSession(session, service, row) ==
  [row EXCEPT !.stripeCheckoutSessionId = session.id,
              !.priceInCents = service.price]

\* stripe.createCheckoutSession
CreateCheckoutSession(u, appointmentId, serviceId) ==
  LET err == CheckoutError(dbAvailable, appointments, u, appointmentId, serviceId)
  IN IF err # ""
       THEN /\ last' = Err("stripe.createCheckoutSession", u, err)
            /\ UNCHANGED <<dbAvailable, appointments, applied, userCustomer, stripeCustomers, stripeSessions, trainingExamples, calls, chatVars, outbox>>
       ELSE LET service  == CHOOSE sv \in getServiceById(serviceId) : TRUE
                create   == userCustomer[u] = NULL
                customer == IF create THEN Len(stripeCustomers) + 1
                            ELSE userCustomer[u]
                session  == [ id                  |-> Len(stripeSessions) + 1,
                              customer            |-> customer,
                              unit_amount         |-> service.price,
                              client_reference_id |-> Some(toString(appointmentId)),
                              appointment_id      |-> Some(toString(appointmentId)),
                              user_id             |-> Some(toString(u)),
                              service_id          |-> serviceId ]
            IN /\ Len(stripeSessions) < MaxSessions
               /\ stripeCustomers' = IF create THEN Append(stripeCustomers, u)
                                     ELSE stripeCustomers
               /\ userCustomer' = [userCustomer EXCEPT ![u] = customer]
               /\ stripeSessions' = Append(stripeSessions, session)
               /\ appointments' =
                    UpdateWhere(appointments, appointmentId,
                                [row \in Rows(appointments) |->
                                   SetCheckoutSession(session, service, row)])
               /\ applied' = [applied EXCEPT ![appointmentId] = NoHistory]
               /\ last' = Ok("stripe.createCheckoutSession", u, {session.id})
               /\ UNCHANGED <<dbAvailable, trainingExamples, calls, chatVars, outbox>>

\* ---------------------------------------- createCheckoutSession, await by await
\* The same procedure cut at its awaits, so that calls interleave.  A call in
\* flight is a record: n its slot, user the caller with ctx.user's
\* stripeCustomerId as the request context holds it, the input, pc the await
\* it stands before, customer and session what it has obtained so far.
CallSlots == 1..MaxCalls

FreeSlots == CallSlots \ {c.n : c \in calls}

Moved(c, pc, customer, session) ==
  (calls \ {c}) \cup {[c EXCEPT !.pc = pc, !.customer = customer,
                                !.session = session]}

\* the request enters with its context and awaits getDb()
BeginCheckout(n, u, appointmentId, serviceId) ==
  /\ n \in FreeSlots
  /\ IF ~dbAvailable
       THEN /\ last' = Err("stripe.createCheckoutSession", u,
                           "Database not available")
            /\ UNCHANGED calls
       ELSE /\ calls' = calls \cup
                  {[ n |-> n, user |-> u, stripeCustomerId |-> userCustomer[u],
                     appointmentId |-> appointmentId, serviceId |-> serviceId,
                     pc |-> "select", customer |-> NULL, session |-> NULL ]}
            /\ last' = [op |-> "stripe.createCheckoutSession.begin",
                        caller |-> u, err |-> "", data |-> {n}]
  /\ UNCHANGED <<dbAvailable, appointments, applied, userCustomer, stripeCustomers, stripeSessions, trainingExamples, conversations, messages, now, page, outbox>>

\* the SELECT of the appointment returns: the three checks, then the read of
\* ctx.user.stripeCustomerId that decides whether a customer is created
SelectAppointment(c) ==
  LET err == CheckoutError(TRUE, appointments, c.user, c.appointmentId,
                           c.serviceId)
  IN /\ c.pc = "select"
     /\ IF err # ""
          THEN /\ calls' = calls \ {c}
               /\ last' = Err("stripe.createCheckoutSession", c.user, err)
          ELSE /\ calls' = IF c.stripeCustomerId = NULL
                             THEN Moved(c, "customer", NULL, NULL)
                             ELSE Moved(c, "session", c.stripeCustomerId, NULL)
               /\ last' = [op |-> "stripe.createCheckoutSession.select",
                           caller |-> c.user, err |-> "", data |-> {c.n}]
     /\ UNCHANGED <<dbAvailable, appointments, applied, userCustomer, stripeCustomers, stripeSessions, trainingExamples, conversations, messages, now, page, outbox>>

\* stripe.customers.create returns a new customer
CreateCustomer(c) ==
  /\ c.pc = "customer"
  /\ stripeCustomers' = Append(stripeCustomers, c.user)
  /\ calls' = Moved(c, "save", Len(stripeCustomers) + 1, NULL)
  /\ last' = [op |-> "stripe.customers.create", caller |-> c.user,
              err |-> "", data |-> {Len(stripeCustomers) + 1}]
  /\ UNCHANGED <<dbAvailable, appointments, applied, userCustomer, stripeSessions, trainingExamples, conversations, messages, now, page, outbox>>

\* the UPDATE of users that stores the customer id
SaveCustomer(c) ==
  /\ c.pc = "save"
  /\ userCustomer' = [userCustomer EXCEPT ![c.user] = c.customer]
  /\ calls' = Moved(c, "session", c.customer, NULL)
  /\ last' = [op |-> "users.update", caller |-> c.user, err |-> "",
              data |-> {c.customer}]
  /\ UNCHANGED <<dbAvailable, appointments, applied, stripeCustomers, stripeSessions, trainingExamples, conversations, messages, now, page, outbox>>

\* stripe.checkout.sessions.create returns the session
CreateSession(c) ==
  LET service == CHOOSE sv \in getServiceById(c.serviceId) : TRUE
      session == [ id                  |-> Len(stripeSessions) + 1,
                   customer            |-> c.customer,
                   unit_amount         |-> service.price,
                   client_reference_id |-> Some(toString(c.appointmentId)),
                   appointment_id      |-> Some(toString(c.appointmentId)),
                   user_id             |-> Some(toString(c.user)),
                   service_id          |-> c.serviceId ]
  IN /\ c.pc = "session"
     /\ Len(stripeSessions) < MaxSessions
     /\ stripeSessions' = Append(stripeSessions, session)
     /\ calls' = Moved(c, "stamp", c.customer, session.id)
     /\ last' = [op |-> "stripe.checkout.sessions.create", caller |-> c.user,
                 err |-> "", data |-> {session.id}]
     /\ UNCHANGED <<dbAvailable, appointments, applied, userCustomer, stripeCustomers, trainingExamples, conversations, messages, now, page, outbox>>

\* the UPDATE of the appointment, then the procedure returns
StampAppointment(c) ==
  LET service == CHOOSE sv \in getServiceById(c.serviceId) : TRUE
  IN /\ c.pc = "stamp"
     /\ appointments' =
          UpdateWhere(appointments, c.appointmentId,
                      [row \in Rows(appointments) |->
                         SetCheckoutSession([id |-> c.session], service, row)])
     /\ applied' = [applied EXCEPT ![c.appointmentId] = NoHistory]
     /\ calls' = calls \ {c}
     /\ last' = Ok("stripe.createCheckoutSession", c.user, {c.session})
     /\ UNCHANGED <<dbAvailable, userCustomer, stripeCustomers, stripeSessions, trainingExamples, conversations, messages, now, page, outbox>>

\* mutant: the ownership comparison is missing
getPaymentStatus_AnyCaller(db, table, u, appointmentId) ==
  IF ~db THEN Err("stripe.getPaymentStatus", u, "Database not available")
  ELSE IF appointmentId \notin DOMAIN table
    THEN Err("stripe.getPaymentStatus", u, "Appointment not found")
  ELSE Ok("stripe.getPaymentStatus", u,
          { [ paymentStatus     |-> table[appointmentId].paymentStatus,
              appointmentStatus |-> table[appointmentId].status,
              priceInCents      |-> table[appointmentId].priceInCents ] })

\* stripe.getPaymentStatus as a function of the store
getPaymentStatus(db, table, u, appointmentId) ==
  IF ~db THEN Err("stripe.getPaymentStatus", u, "Database not available")
  ELSE IF appointmentId \notin DOMAIN table
    THEN Err("stripe.getPaymentStatus", u, "Appointment not found")
  ELSE IF table[appointmentId].userId # u
    THEN Err("stripe.getPaymentStatus", u, "Unauthorized")
  ELSE Ok("stripe.getPaymentStatus", u,
          { [ paymentStatus     |-> table[appointmentId].paymentStatus,
              appointmentStatus |-> table[appointmentId].status,
              priceInCents      |-> table[appointmentId].priceInCents ] })

GetPaymentStatus(u, appointmentId) ==
  /\ last' = getPaymentStatus(dbAvailable, appointments, u, appointmentId)
  /\ UNCHANGED <<dbAvailable, appointments, applied, userCustomer, stripeCustomers, stripeSessions, trainingExamples, calls, chatVars, outbox>>

\* stripe.getPaymentHistory as a function of the store
getPaymentHistory(db, table, u) ==
  IF ~db THEN Err("stripe.getPaymentHistory", u, "Database not available")
  ELSE Ok("stripe.getPaymentHistory", u,
          { [ id            |-> i,
              priceInCents  |-> table[i].priceInCents,
              paymentStatus |-> table[i].paymentStatus ] :
            i \in { j \in DOMAIN table : /\ table[j].userId = u
                                         /\ table[j].paymentStatus = "completed" } })

GetPaymentHistory(u) ==
  /\ last' = getPaymentHistory(dbAvailable, appointments, u)
  /\ UNCHANGED <<dbAvailable, appointments, applied, userCustomer, stripeCustomers, stripeSessions, trainingExamples, calls, chatVars, outbox>>

\* ------------------------------------------------------------ admin guard
\* mutant: the middleware lets every caller on
AdminGuard_Everyone(u) == u \in Users

\* the .use() middleware of the admin-only procedures: TRUE lets the call on
AdminGuard(u) == Role(u) = "admin"

\* appointments.listAll
ListAll(u) ==
  /\ last' = IF ~AdminGuard(u) THEN Err("appointments.listAll", u, "FORBIDDEN")
             ELSE Ok("appointments.listAll", u,
                     IF dbAvailable THEN DOMAIN appointments ELSE {})
  /\ UNCHANGED <<dbAvailable, appointments, applied, userCustomer, stripeCustomers, stripeSessions, trainingExamples, calls, chatVars, outbox>>

\* ---------------------------------------------------------- training router
\* training.getExamples
GetExamples(u) ==
  /\ last' = IF ~AdminGuard(u) THEN Err("training.getExamples", u, "FORBIDDEN")
             ELSE Ok("training.getExamples", u,
                     IF dbAvailable THEN DOMAIN trainingExamples ELSE {})
  /\ UNCHANGED <<dbAvailable, appointments, applied, userCustomer, stripeCustomers, stripeSessions, trainingExamples, calls, chatVars, outbox>>

\* the training_examples row a fresh INSERT stores: quality defaults to
\* "good" and active to 1
NewExample(u, quality) ==
  [ createdByUserId |-> u,
    quality         |-> IF quality = Absent THEN "good"
                        ELSE CHOOSE q \in quality : TRUE,
    active          |-> 1 ]

\* training.createExample
CreateExample(u, quality) ==
  IF ~AdminGuard(u)
    THEN /\ last' = Err("training.createExample", u, "FORBIDDEN")
         /\ UNCHANGED <<dbAvailable, appointments, applied, userCustomer, stripeCustomers, stripeSessions, trainingExamples, calls, chatVars, outbox>>
  ELSE IF ~dbAvailable
    THEN /\ last' = Err("training.createExample", u, "Database not available")
         /\ UNCHANGED <<dbAvailable, appointments, applied, userCustomer, stripeCustomers, stripeSessions, trainingExamples, calls, chatVars, outbox>>
  ELSE /\ Len(trainingExamples) < MaxExamples
       /\ trainingExamples' = Append(trainingExamples, NewExample(u, quality))
       /\ last' = Ok("training.createExample", u, {Len(trainingExamples) + 1})
       /\ UNCHANGED <<dbAvailable, appointments, applied, userCustomer, stripeCustomers, stripeSessions, calls, chatVars, outbox>>

\* db.ts updateTrainingExample with the data the router builds:
\*   { quality: input.quality, active: input.active ? 1 : 0 }
updateTrainingExample(table, exampleId, quality, active) ==
  UpdateWhere(table, exampleId,
              [row \in Rows(table) |->
                 [row EXCEPT !.quality = IF quality = Absent THEN row.quality
                                         ELSE CHOOSE q \in quality : TRUE,
                             !.active  = IF active = Some(TRUE) THEN 1 ELSE 0]])

\* training.updateExample
UpdateExample(u, exampleId, quality, active) ==
  IF ~AdminGuard(u)
    THEN /\ last' = Err("training.updateExample", u, "FORBIDDEN")
         /\ UNCHANGED <<dbAvailable, appointments, applied, userCustomer, stripeCustomers, stripeSessions, trainingExamples, calls, chatVars, outbox>>
  ELSE IF ~dbAvailable
    THEN /\ last' = Err("training.updateExample", u, "Database not available")
         /\ UNCHANGED <<dbAvailable, appointments, applied, userCustomer, stripeCustomers, stripeSessions, trainingExamples, calls, chatVars, outbox>>
  ELSE /\ trainingExamples' =
            updateTrainingExample(trainingExamples, exampleId, quality, active)
       /\ last' = Ok("training.updateExample", u, {exampleId})
       /\ UNCHANGED <<dbAvailable, appointments, applied, userCustomer, stripeCustomers, stripeSessions, calls, chatVars, outbox>>

\* ------------------------------------------------------------ environment
\* the server process is started again, with or without DATABASE_URL: getDb
\* gives a handle from then on exactly when the variable is set
Redeploy ==
  /\ dbAvailable' = ~dbAvailable
  /\ last' = Response("boot", 0, "")
  /\ UNCHANGED <<appointments, applied, userCustomer, stripeCustomers, stripeSessions, trainingExamples, calls, chatVars, outbox>>

\* ---------------------------------------------------------- the Chat page
\* the component's state: loading from useAuth, the conversationId state,
\* getConversationsQuery.data (Absent while the list has not arrived), the
\* startConversation mutations awaiting their result, and for the record
\* how many were issued and how many conversations the user had on load
MountedPage(u) ==
  [ open           |-> TRUE,
    user           |-> u,
    loading        |-> TRUE,
    conversationId |-> NULL,
    data           |-> Absent,
    inflight       |-> 0,
    issued         |-> 0,
    existing       |-> Cardinality({c \in DOMAIN conversations :
                                      conversations[c].userId = u}) ]

\* the body of the useEffect: handleNewConversation up to its await, or
\* setConversationId(data[0].id)
Effect(p) ==
  IF p.loading THEN p
  ELSE IF p.conversationId = NULL
          /\ (p.data = Absent \/ p.data = Some(<<>>))
    THEN [p EXCEPT !.inflight = @ + 1, !.issued = @ + 1]
  ELSE IF p.data # Absent /\ p.data # Some(<<>>) /\ p.conversationId = NULL
    THEN [p EXCEPT !.conversationId = (CHOOSE list \in p.data : TRUE)[1]]
  ELSE p

\* the effect runs after a render in which one of its dependencies changed
\* (user, loading, conversationId, data), and again if it changed one itself
Rendered(before, after) ==
  IF <<before.loading, before.conversationId, before.data>>
       = <<after.loading, after.conversationId, after.data>>
    THEN after
  ELSE LET p == Effect(after)
       IN IF p.conversationId # after.conversationId THEN Effect(p) ELSE p

\* the user opens /chat: the component mounts while useAuth is loading
OpenPage(u) ==
  /\ ~page.open
  /\ page' = Effect(MountedPage(u))
  /\ last' = Response("page.open", 0, "")
  /\ UNCHANGED <<dbAvailable, appointments, applied, userCustomer, stripeCustomers, stripeSessions, trainingExamples, calls, conversations, messages, now, outbox>>

\* useAuth has the signed-in user: the query is enabled from this render on
AuthResolved ==
  /\ page.open /\ page.loading
  /\ page' = Rendered(page, [page EXCEPT !.loading = FALSE])
  /\ last' = Response("page.auth", 0, "")
  /\ UNCHANGED <<dbAvailable, appointments, applied, userCustomer, stripeCustomers, stripeSessions, trainingExamples, calls, conversations, messages, now, outbox>>

\* the answer of chat.getConversations arrives (the first one or a refetch)
QueryResolved ==
  /\ page.open /\ ~page.loading
  /\ \E list \in getConversationsByUserId(dbAvailable, conversations, page.user) :
       page' = Rendered(page, [page EXCEPT !.data = Some(list)])
  /\ last' = Response("page.query", 0, "")
  /\ UNCHANGED <<dbAvailable, appointments, applied, userCustomer, stripeCustomers, stripeSessions, trainingExamples, calls, conversations, messages, now, outbox>>

\* a startConversation mutation is served and handleNewConversation resumes:
\* setConversationId(result.conversationId), or the catch block
MutationResolved ==
  /\ page.open /\ page.inflight > 0
  /\ IF ~dbAvailable
       THEN /\ page' = [page EXCEPT !.inflight = @ - 1]
            /\ UNCHANGED conversations
       ELSE /\ Len(conversations) < MaxConversations
            /\ conversations' = Append(conversations,
                                       [userId |-> page.user, updatedAt |-> now])
            /\ page' = Rendered(page,
                                [page EXCEPT !.inflight = @ - 1,
                                             !.conversationId = Len(conversations) + 1])
  /\ last' = Response("page.mutation", 0, "")
  /\ UNCHANGED <<dbAvailable, appointments, applied, userCustomer, stripeCustomers, stripeSessions, trainingExamples, calls, messages, now, outbox>>

\* the user leaves the page once nothing is awaited
ClosePage ==
  /\ page.open /\ page.inflight = 0 /\ ~page.loading
  /\ page' = ClosedPage
  /\ last' = Response("page.close", 0, "")
  /\ UNCHANGED <<dbAvailable, appointments, applied, userCustomer, stripeCustomers, stripeSessions, trainingExamples, calls, conversations, messages, now, outbox>>

\* ---------------------------------------------------------- specifications
AppointmentIds == 1..MaxAppointments

OptionalStatus == {Absent} \cup {Some(s) : s \in AppointmentStatus}

\* the inputs of appointments.update that differ in effect: an empty input,
\* a new time only, and each status
UpdateInputs ==
  { [status |-> Absent, scheduledAt |-> at] : at \in BOOLEAN }
    \cup { [status |-> st, scheduledAt |-> FALSE] : st \in OptionalStatus \ {Absent} }

\* the payment events the booking specification delivers: a completed
\* checkout and a refund for a target
PaymentEvents ==
  { e \in EventsWith(LiveId, TargetKeys) :
      /\ e.type \in {"checkout.session.completed", "charge.refunded"}
      /\ e.object.id = 1 }

\* booking and payment: the API of both users, with payments arriving
Next ==
  \/ \E u \in Users : CreateAppointment(u)
  \/ \E u \in Users : ListAppointments(u)
  \/ \E u \in Users, a \in Targets, input \in UpdateInputs :
       UpdateAppointment(u, a, input.status, input.scheduledAt)
  \/ \E u \in Users, a \in Targets \cup {Nowhere}, sv \in ServiceInputs :
       CreateCheckoutSession(u, a, sv)
  \/ \E u \in Users, a \in AppointmentIds : GetPaymentStatus(u, a)
  \/ \E u \in Users : GetPaymentHistory(u)
  \/ \E e \in PaymentEvents : StripeWebhook(Signed(e))
  \/ Redeploy

Spec == Init /\ [][Next]_vars

\* reconciliation: every webhook request, on appointments of one user whose
\* status the user also updates
NextWebhook ==
  \/ CreateAppointment(1)
  \/ \E a \in Targets, st \in AppointmentStatus :
       UpdateAppointment(1, a, Some(st), FALSE)
  \/ \E req \in WebhookRequests : StripeWebhook(req)

SpecWebhook == Init /\ [][NextWebhook]_vars

\* the admin-only procedures
NextAdmin ==
  \/ \E u \in Users : CreateAppointment(u)
  \/ \E u \in Users : ListAll(u)
  \/ \E u \in Users : GetExamples(u)
  \/ \E u \in Users, q \in {Absent, Some("excellent")} : CreateExample(u, q)
  \/ \E u \in Users, x \in 1..MaxExamples, q \in {Absent, Some("poor")},
        ac \in {Absent, Some(TRUE), Some(FALSE)} :
       UpdateExample(u, x, q, ac)
  \/ Redeploy

SpecAdmin == Init /\ [][NextAdmin]_vars

\* amounts that are formatted: everything up to MaxPrice and the catalog
PriceInputs == 0..MaxPrice \cup {sv.price : sv \in BARBERSHOP_SERVICES}

\* a caller formats an amount for display
FormatPrice(priceInCents) ==
  /\ last' = [op |-> "formatPrice", input |-> priceInCents,
              output |-> formatPrice(priceInCents)]
  /\ UNCHANGED <<dbAvailable, appointments, applied, userCustomer, stripeCustomers, stripeSessions, trainingExamples, calls, chatVars, outbox>>

NextPrice == \E priceInCents \in PriceInputs : FormatPrice(priceInCents)

SpecPrice == Init /\ [][NextPrice]_vars

\* what users type
Contents == {"I want to book a haircut", "tomorrow at ten"}

ConversationIds == 1..MaxConversations

\* the chat procedures
NextChat ==
  \/ \E u \in Users : StartConversation(u)
  \/ \E u \in Users : GetConversations(u)
  \/ \E u \in Users, c \in ConversationIds, content \in Contents :
       SendMessage(u, c, content)
  \/ \E u \in Users, c \in ConversationIds : GetMessages(u, c)
  \/ Tick

SpecChat == Init /\ [][NextChat]_vars

\* a user with or without earlier conversations visits the Chat page
NextPage ==
  \/ \E u \in Users : StartConversation(u)
  \/ Tick
  \/ \E u \in Users : OpenPage(u)
  \/ AuthResolved
  \/ QueryResolved
  \/ MutationResolved
  \/ ClosePage

SpecPage == Init /\ [][NextPage]_vars

\* the checkout.session.completed event the provider sends for a session it
\* created: the object carries the session's id and correlation fields
SessionCompleted(session) ==
  [ id     |-> LiveId,
    type   |-> "checkout.session.completed",
    object |-> [ id                  |-> session.id,
                 client_reference_id |-> session.client_reference_id,
                 appointment_id      |-> session.appointment_id ] ]

\* sessions are created for the appointments and paid later
NextCorrelate ==
  \/ \E u \in Users : CreateAppointment(u)
  \/ \E u \in Users, a \in AppointmentIds :
       CreateCheckoutSession(u, a, "full_service")
  \/ \E i \in DOMAIN stripeSessions :
       StripeWebhook(Signed(SessionCompleted(stripeSessions[i])))
  \/ Redeploy

SpecCorrelate == Init /\ [][NextCorrelate]_vars

\* the payment events of an appointment: its checkout.session.completed and
\* its payment_intent.succeeded, each with the appointment's id as key
PaidEvents(a) ==
  { [ id |-> LiveId, type |-> "checkout.session.completed",
      object |-> [id |-> 1, client_reference_id |-> Some(toString(a)),
                  appointment_id |-> Absent] ],
    [ id |-> LiveId, type |-> "payment_intent.succeeded",
      object |-> [id |-> 1, client_reference_id |-> Absent,
                  appointment_id |-> Some(toString(a))] ] }

\* the provider has a payment event of an existing appointment to deliver
Emit(e) ==
  /\ \A o \in outbox : o.event # e
  /\ outbox' = outbox \cup {[event |-> e, acked |-> FALSE]}
  /\ last' = Response("emit", 0, "")
  /\ UNCHANGED <<dbAvailable, appointments, applied, userCustomer, stripeCustomers, stripeSessions, trainingExamples, calls, chatVars>>

\* the events the provider still delivers
Unacked == {o.event : o \in {x \in outbox : ~x.acked}}

\* the provider delivers an event it has not got a 2xx for, again if need be
Redeliver(e) ==
  /\ e \in Unacked
  /\ StripeWebhook(Signed(e))

\* payments arrive while the store comes and goes
NextRetry ==
  \/ \E u \in Users : CreateAppointment(u)
  \/ \E a \in Targets \cap DOMAIN appointments : \E e \in PaidEvents(a) : Emit(e)
  \/ \E a \in Targets : \E e \in PaidEvents(a) : Redeliver(e)
  \/ Redeploy

\* the provider redelivers until it is answered 2xx, and store failures are
\* transient: a store that is away comes back, and a delivery that is
\* possible again and again is at some time made with its UPDATE succeeding
RetryFairness ==
  /\ WF_vars(Redeploy /\ dbAvailable')
  /\ \A a \in Targets : \A e \in PaidEvents(a) :
       /\ WF_vars(Redeliver(e))
       /\ SF_vars(Redeliver(e) /\ last'.wrote # NULL)

SpecRetry == Init /\ [][NextRetry]_vars /\ RetryFairness

\* createCheckoutSession calls interleaved at their awaits
NextCheckout ==
  \/ \E u \in Users : CreateAppointment(u)
  \/ \E n \in CallSlots, u \in Users, a \in Targets \cup {Nowhere},
        sv \in ServiceInputs : BeginCheckout(n, u, a, sv)
  \/ \E c \in calls : SelectAppointment(c)
  \/ \E c \in calls : CreateCustomer(c)
  \/ \E c \in calls : SaveCustomer(c)
  \/ \E c \in calls : CreateSession(c)
  \/ \E c \in calls : StampAppointment(c)
  \/ Redeploy

SpecCheckout == Init /\ [][NextCheckout]_vars

\* ------------------------------------------------------------------ claims
\* the request carries the signature of its own body under the endpoint secret
GoodSignature(req) == req.signature = Some(Sign(webhookSecret, req.body))

IsTest(req) == startsWith(req.body.id, EvtTestPrefix)

\* the id a checkout session's client_reference_id parses to (0 when none)
CsTarget(req) ==
  LET n == parseInt(OrZero(req.body.object.client_reference_id))
  IN IF n.nan THEN 0 ELSE n.val

\* properly signed checkout.session.completed requests with a usable key
CheckoutRequests ==
  { r \in WebhookRequests : /\ GoodSignature(r)
                            /\ r.body.type = "checkout.session.completed"
                            /\ CsTarget(r) # 0 }

CheckoutCompletedRow(row, session) ==
  [row EXCEPT !.paymentStatus = "completed",
              !.status = "confirmed",
              !.stripeCheckoutSessionId = session.id]

\* C1 as stated: after every signature-verified checkout.session.completed
\* event whose client_reference_id parses to the id of an existing
\* appointment has been answered, that appointment is completed / confirmed
\* and holds the session id.
C1_EveryVerifiedCheckoutCompletes ==
  [][ (last'.op = "webhook" /\ last'.type = "checkout.session.completed") =>
        \A req \in CheckoutRequests :
          (CsTarget(req) \in DOMAIN appointments /\ StripeWebhook(req)) =>
            appointments'[CsTarget(req)] =
              CheckoutCompletedRow(appointments[CsTarget(req)], req.body.object) ]_vars

\* C1, amended: such an event makes the appointment completed / confirmed
\* with the session id, whatever the row held before and touching no other
\* row, provided it is not a test event, the store is available and the UPDATE
\* succeeds; otherwise the table is left as it was.  Either way the answer
\* is a 200.
C1_CheckoutCompletedWhenApplied ==
  [][ (last'.op = "webhook" /\ last'.type = "checkout.session.completed") =>
        \A req \in CheckoutRequests :
          (CsTarget(req) \in DOMAIN appointments /\ StripeWebhook(req)) =>
            /\ last'.status = 200
            /\ IF IsTest(req) \/ ~dbAvailable \/ last'.failed
                 THEN appointments' = appointments
                 ELSE /\ last'.body = "received"
                      /\ appointments' =
                           [appointments EXCEPT ![CsTarget(req)] =
                              CheckoutCompletedRow(@, req.body.object)] ]_vars

\* C1 witness: a checkout.session.completed event was applied to a row that
\* a payment-intent event had written before
C1_Witness ==
  /\ last.op = "webhook"
  /\ last.type = "checkout.session.completed"
  /\ last.wrote # NULL
  /\ appointments[last.wrote].stripePaymentIntentId # NULL
  /\ Len(appointments) > 1

\* C2: a delivery that repeats the event last applied to a row, with no
\* other write to the row in between, leaves the whole table as the first
\* delivery left it (for each of the four handled types).
C2_DuplicateDeliveryIdempotent ==
  [][ (last'.op = "webhook" /\ last'.dup) => appointments' = appointments ]_vars

\* C2 witness: a payment_intent.succeeded event was applied a second time
C2_Witness ==
  /\ last.op = "webhook"
  /\ last.dup
  /\ last.type = "payment_intent.succeeded"
  /\ appointments[last.wrote].paymentStatus = "completed"

\* the requests without a valid signature
RejectedRequests == { r \in WebhookRequests : ~GoodSignature(r) }

\* C3: a request with no signature header or with a signature that does not
\* verify is answered 400, nothing of the store changes and no field of the
\* event is acted upon.
C3_BadSignatureRejected ==
  \A req \in RejectedRequests :
    ~ENABLED ( /\ StripeWebhook(req)
               /\ ~ ( /\ last'.status = 400
                      /\ last'.type = "" /\ last'.wrote = NULL
                      /\ UNCHANGED <<appointments, applied, userCustomer,
                                     stripeCustomers, stripeSessions>> ) )

\* C3 witness: a request was rejected while an appointment it names exists
C3_Witness ==
  /\ last.op = "webhook"
  /\ last.status = 400
  /\ Len(appointments) > 0

TestRequests == { r \in WebhookRequests : IsTest(r) }

\* C4: a test event is answered {verified: true} and changes no appointment
\* when its signature verifies, and is answered 400 when it does not.
C4_TestEventBypass ==
  \A req \in TestRequests :
    ~ENABLED ( /\ StripeWebhook(req)
               /\ ~ ( /\ appointments' = appointments
                      /\ IF GoodSignature(req)
                           THEN last'.status = 200 /\ last'.body = "verified"
                           ELSE last'.status = 400 /\ last'.body = "error" ) )

\* C4 witness: a test event was acknowledged while the appointment it is
\* correlated to exists and is still unpaid
C4_Witness ==
  /\ last.op = "webhook"
  /\ last.body = "verified"
  /\ Len(appointments) > 0
  /\ appointments[1].paymentStatus = "pending"

\* C5: once a checkout.session.completed event and a payment_intent.succeeded
\* event have both been applied to an appointment, in either order and any
\* number of times, the row is completed / confirmed and holds the session
\* id and the intent id.
C5_PaymentEventsConverge ==
  \A a \in DOMAIN appointments :
    (applied[a].cs # NULL /\ applied[a].pi # NULL) =>
      /\ appointments[a].paymentStatus = "completed"
      /\ appointments[a].status = "confirmed"
      /\ appointments[a].stripeCheckoutSessionId = applied[a].cs
      /\ appointments[a].stripePaymentIntentId = applied[a].pi

\* C5 witness: both were applied, the payment intent first
C5_Witness ==
  \E a \in DOMAIN appointments :
    /\ applied[a].cs # NULL /\ applied[a].pi # NULL
    /\ applied[a].type = "checkout.session.completed"
    /\ last.op = "webhook" /\ last.dup

\* a step of an API operation left an existing row's status and
\* paymentStatus as they were, and gave a new row the schema defaults
KeepsPaymentFields(a) ==
  IF a \in DOMAIN appointments
    THEN /\ appointments'[a].status = appointments[a].status
         /\ appointments'[a].paymentStatus = appointments[a].paymentStatus
    ELSE /\ appointments'[a].status = "pending"
         /\ appointments'[a].paymentStatus = "pending"

C7_PaymentReadsScopedToOwner ==
  [][ /\ last'.op = "stripe.getPaymentStatus" =>
           \A u \in Users, a \in DOMAIN appointments :
             GetPaymentStatus(u, a) =>
               IF appointments[a].userId # u
                 THEN /\ last'.data = {}
                      /\ last'.err # ""
                      /\ dbAvailable => last'.err = "Unauthorized"
                 ELSE dbAvailable =>
                        /\ last'.err = ""
                        /\ last'.data =
                             { [ paymentStatus     |-> appointments[a].paymentStatus,
                                 appointmentStatus |-> appointments[a].status,
                                 priceInCents      |-> appointments[a].priceInCents ] }
      /\ last'.op = "stripe.getPaymentHistory" =>
           \A u \in Users :
             GetPaymentHistory(u) =>
               \A d \in last'.data :
                 /\ d.id \in DOMAIN appointments
                 /\ appointments[d.id].userId = u ]_vars

\* C7 witness: a user was refused the payment status of a paid appointment
\* of another user
C7_Witness ==
  /\ last.op = "stripe.getPaymentStatus"
  /\ last.err = "Unauthorized"
  /\ \E a \in DOMAIN appointments :
       /\ appointments[a].userId # last.caller
       /\ appointments[a].paymentStatus = "completed"
       /\ appointments[a].priceInCents # NULL

AdminOps ==
  {"appointments.listAll", "training.getExamples", "training.createExample",
   "training.updateExample"}

\* C8: for a caller who is not an administrator each admin-only procedure
\* fails with FORBIDDEN, whatever the state of the store, returns no data
\* and changes nothing; for an administrator it never fails with FORBIDDEN.
C8_AdminOnly ==
  [][ last'.op \in AdminOps =>
        IF Role(last'.caller) # "admin"
          THEN /\ last'.err = "FORBIDDEN"
               /\ last'.data = {}
               /\ UNCHANGED <<appointments, trainingExamples, userCustomer,
                              stripeCustomers, stripeSessions>>
          ELSE last'.err # "FORBIDDEN" ]_vars

\* C8 witness: a non-administrator was refused the update of an existing
\* training example
C8_Witness ==
  /\ last.op = "training.updateExample"
  /\ last.err = "FORBIDDEN"
  /\ Role(last.caller) = "user"
  /\ Len(trainingExamples) > 0

\* C9: appointments.update on an appointment owned by another user is
\* rejected with Unauthorized and leaves that appointment unchanged.
C9_UpdateScopedToOwner ==
  [][ last'.op = "appointments.update" =>
        \A u \in Users, a \in DOMAIN appointments, st \in OptionalStatus,
           at \in BOOLEAN :
          (appointments[a].userId # u /\ UpdateAppointment(u, a, st, at)) =>
            /\ last'.err = "Unauthorized"
            /\ appointments'[a] = appointments[a] ]_vars

CatalogIds == {"haircut", "hair_eyebrow", "full_service"}

\* the failure createCheckoutSession is to report, "" when there is none
ExpectedCheckoutError(u, a, sv) ==
  IF a \notin DOMAIN appointments THEN "Appointment not found"
  ELSE IF appointments[a].userId # u THEN "Unauthorized"
  ELSE IF sv \notin CatalogIds THEN "Service not found"
  ELSE ""

\* C10: createCheckoutSession (the store being available) fails with
\* "Appointment not found", "Unauthorized" or "Service not found", the first
\* that applies in that order, and on such a failure creates no customer and
\* no session and modifies neither the user nor any appointment; it succeeds
\* when none applies.
C10_CheckoutFailuresInOrder ==
  [][ last'.op = "stripe.createCheckoutSession" =>
        \A u \in Users, a \in Targets \cup {Nowhere}, sv \in ServiceInputs :
          (dbAvailable /\ CreateCheckoutSession(u, a, sv)) =>
            /\ last'.err = ExpectedCheckoutError(u, a, sv)
            /\ last'.err # "" =>
                 UNCHANGED <<stripeCustomers, stripeSessions, userCustomer,
                             appointments>> ]_vars

\* C10 witness: a caller who owns no appointment was refused a session for
\* an existing appointment, after sessions had been created
C10_Witness ==
  /\ last.op = "stripe.createCheckoutSession"
  /\ last.err = "Unauthorized"
  /\ Len(stripeSessions) > 0
  /\ \A a \in DOMAIN appointments : appointments[a].userId # last.caller

\* C11: for every user, over every interleaving of that user's
\* createCheckoutSession calls, at most one payment-provider customer is
\* created, and the customer id stored on the user record is the one every
\* call of that user works with: no call creates a second customer or
\* overwrites the stored id.
CustomersOf(u) == {i \in DOMAIN stripeCustomers : stripeCustomers[i] = u}

C11_CustomerCreatedOnce ==
  \A u \in Users :
    /\ Cardinality(CustomersOf(u)) <= 1
    /\ \A c \in calls :
         (c.user = u /\ c.customer # NULL /\ userCustomer[u] # NULL) =>
           c.customer = userCustomer[u]

\* C12: when stripe.createCheckoutSession succeeds for appointment a and
\* service s, the row of a has afterwards the returned session id and the
\* catalog price of s, every other field of it is as before, and every other
\* row is as before.
CatalogPrice(serviceId) ==
  (CHOOSE sv \in BARBERSHOP_SERVICES : sv.id = serviceId).price

C12_CheckoutStampsSessionAndPrice ==
  [][ (last'.op = "stripe.createCheckoutSession" /\ last'.err = "") =>
        \A u \in Users, a \in Targets \cup {Nowhere}, sv \in ServiceInputs :
          CreateCheckoutSession(u, a, sv) =>
            /\ a \in DOMAIN appointments
            /\ DOMAIN appointments' = DOMAIN appointments
            /\ \A i \in DOMAIN appointments :
                 appointments'[i] =
                   IF i = a
                     THEN [ userId                  |-> appointments[a].userId,
                            status                  |-> appointments[a].status,
                            paymentStatus           |-> appointments[a].paymentStatus,
                            stripePaymentIntentId   |-> appointments[a].stripePaymentIntentId,
                            stripeCheckoutSessionId |-> CHOOSE id \in last'.data : TRUE,
                            priceInCents            |-> CatalogPrice(sv) ]
                     ELSE appointments[i] ]_vars

\* a second session for an appointment the webhook had already confirmed,
\* with another appointment in the table
C12_Witness ==
  /\ last.op = "stripe.createCheckoutSession" /\ last.err = ""
  /\ Len(appointments) = 2
  /\ \E a \in DOMAIN appointments :
       /\ {appointments[a].stripeCheckoutSessionId} = last.data
       /\ appointments[a].priceInCents = CatalogPrice("full_service")
       /\ appointments[a].status = "confirmed"
       /\ appointments[a].paymentStatus = "completed"

\* C13: for each of the four handled event types, a verified event whose
\* correlation key (client_reference_id for checkout sessions,
\* metadata.appointment_id for payment intents and charges) is missing, empty,
\* "0" or not a number mutates no appointment and is answered with
\* 200 {received: true}: in every reachable state of the store the handler
\* issues no UPDATE for such a request, hands the table back as it was, and
\* the response is the acknowledgment.
UncorrelatedKeys == {Absent, Some(<<>>), Some(<<"0">>), Some(<<"x">>)}

UncorrelatedRequests ==
  { Signed(e) : e \in {x \in EventsWith(LiveId, UncorrelatedKeys) :
                         x.type \in HandledTypes} }

C13_NoKeyNoMutation ==
  \A req \in UncorrelatedRequests :
    \E r \in {WebhookResult(dbAvailable, appointments, req, TRUE)} :
      /\ r.did.wrote = NULL
      /\ r.did.table = appointments
      /\ r.status = 200 /\ r.body = "received"

\* a handled event went through its handler with the store available and
\* with rows in the table, and no UPDATE was issued
C13_Witness ==
  /\ last.op = "webhook" /\ last.type \in HandledTypes
  /\ last.status = 200 /\ last.body = "received"
  /\ dbAvailable /\ ~last.failed /\ last.issued = NULL
  /\ Len(appointments) = MaxAppointments

\* C14: when the UPDATE inside an event handler fails, the error stays in
\* that handler: the appointments are left as they were and the webhook
\* answers 200 {received: true}.  No failure of a handler's UPDATE reaches
\* the outer catch, so no delivery is answered with 500, and every delivery
\* gets exactly one response.
C14_UpdateFailureSwallowed ==
  [][ last'.op = "webhook" =>
        /\ last'.status \in {200, 400}
        /\ last'.failed =>
             /\ appointments' = appointments
             /\ applied' = applied
             /\ last'.wrote = NULL
             /\ last'.status = 200 /\ last'.body = "received" ]_vars

\* the UPDATE for an existing, still unpaid appointment failed and the
\* delivery was acknowledged
C14_Witness ==
  /\ last.op = "webhook" /\ last.failed
  /\ last.status = 200 /\ last.body = "received"
  /\ last.issued \in DOMAIN appointments
  /\ appointments[last.issued].paymentStatus = "pending"

\* the id an intent's or charge's metadata.appointment_id parses to (0 when
\* none)
MetaTarget(req) ==
  LET n == parseInt(OrZero(req.body.object.appointment_id))
  IN IF n.nan THEN 0 ELSE n.val

\* properly signed requests of that type with a usable metadata key
MetaRequests(type) ==
  { r \in WebhookRequests : /\ GoodSignature(r)
                            /\ r.body.type = type
                            /\ MetaTarget(r) # 0 }

FailedRequests == MetaRequests("payment_intent.payment_failed")

RefundRequests == MetaRequests("charge.refunded")

\* C15 as stated: a verified payment_intent.payment_failed event correlated
\* to an existing appointment sets that appointment's paymentStatus to failed
\* and its stripePaymentIntentId to the intent id, and leaves its status,
\* stripeCheckoutSessionId and priceInCents as they were.
C15_EveryVerifiedFailureRecorded ==
  [][ (last'.op = "webhook" /\ last'.type = "payment_intent.payment_failed") =>
        \A req \in FailedRequests :
          (MetaTarget(req) \in DOMAIN appointments /\ StripeWebhook(req)) =>
            appointments'[MetaTarget(req)] =
              [appointments[MetaTarget(req)] EXCEPT
                 !.paymentStatus = "failed",
                 !.stripePaymentIntentId = req.body.object.id] ]_vars

\* C15, amended: such an event sets paymentStatus = failed and
\* stripePaymentIntentId = the intent id and nothing else, in that row only,
\* provided it is not a test event, the store is available and the UPDATE
\* succeeds; otherwise the table is left as it was.  Status, session id and
\* price are unchanged either way.
C15_FailureRecordedWhenApplied ==
  [][ (last'.op = "webhook" /\ last'.type = "payment_intent.payment_failed") =>
        \A req \in FailedRequests :
          (MetaTarget(req) \in DOMAIN appointments /\ StripeWebhook(req)) =>
            IF IsTest(req) \/ ~dbAvailable \/ last'.failed
              THEN appointments' = appointments
              ELSE appointments' =
                     [appointments EXCEPT ![MetaTarget(req)] =
                        [ userId                  |-> @.userId,
                          status                  |-> @.status,
                          paymentStatus           |-> "failed",
                          stripePaymentIntentId   |-> req.body.object.id,
                          stripeCheckoutSessionId |-> @.stripeCheckoutSessionId,
                          priceInCents            |-> @.priceInCents ]] ]_vars

\* the failure was recorded on an appointment that a checkout session had
\* confirmed: it is still confirmed and still holds the session id
C15_Witness ==
  /\ last.op = "webhook" /\ last.type = "payment_intent.payment_failed"
  /\ last.wrote # NULL
  /\ appointments[last.wrote].paymentStatus = "failed"
  /\ appointments[last.wrote].stripePaymentIntentId # NULL
  /\ appointments[last.wrote].status = "confirmed"
  /\ appointments[last.wrote].stripeCheckoutSessionId # NULL

\* C16 as stated: a verified charge.refunded event correlated to an existing
\* appointment sets that appointment's paymentStatus to refunded and its
\* status to cancelled, whatever they were, and leaves its
\* stripeCheckoutSessionId, stripePaymentIntentId and priceInCents as they
\* were.
C16_EveryVerifiedRefundRecorded ==
  [][ (last'.op = "webhook" /\ last'.type = "charge.refunded") =>
        \A req \in RefundRequests :
          (MetaTarget(req) \in DOMAIN appointments /\ StripeWebhook(req)) =>
            appointments'[MetaTarget(req)] =
              [appointments[MetaTarget(req)] EXCEPT
                 !.paymentStatus = "refunded",
                 !.status = "cancelled"] ]_vars

\* C16, amended: such an event sets paymentStatus = refunded and status =
\* cancelled and nothing else, in that row only and whatever the row held,
\* provided it is not a test event, the store is available and the UPDATE
\* succeeds; otherwise the table is left as it was.  Session id, intent id
\* and price are unchanged either way.
C16_RefundRecordedWhenApplied ==
  [][ (last'.op = "webhook" /\ last'.type = "charge.refunded") =>
        \A req \in RefundRequests :
          (MetaTarget(req) \in DOMAIN appointments /\ StripeWebhook(req)) =>
            IF IsTest(req) \/ ~dbAvailable \/ last'.failed
              THEN appointments' = appointments
              ELSE appointments' =
                     [appointments EXCEPT ![MetaTarget(req)] =
                        [ userId                  |-> @.userId,
                          status                  |-> "cancelled",
                          paymentStatus           |-> "refunded",
                          stripePaymentIntentId   |-> @.stripePaymentIntentId,
                          stripeCheckoutSessionId |-> @.stripeCheckoutSessionId,
                          priceInCents            |-> @.priceInCents ]] ]_vars

\* the refund was recorded on an appointment that held a session id and an
\* intent id: it keeps both
C16_Witness ==
  /\ last.op = "webhook" /\ last.type = "charge.refunded"
  /\ last.wrote # NULL
  /\ appointments[last.wrote].paymentStatus = "refunded"
  /\ appointments[last.wrote].status = "cancelled"
  /\ appointments[last.wrote].stripePaymentIntentId # NULL
  /\ appointments[last.wrote].stripeCheckoutSessionId # NULL

\* C17: a signature-verified event of a type other than the four handled
\* ones is answered with 200 {received: true} and changes no appointment: in
\* every reachable state of the store the switch issues no UPDATE for it,
\* whether or not its metadata names an existing appointment.
OtherTypeRequests ==
  { r \in WebhookRequests : /\ GoodSignature(r)
                            /\ r.body.type \notin HandledTypes
                            /\ ~IsTest(r) }

C17_OtherTypesAcknowledged ==
  /\ \E r \in OtherTypeRequests : MetaTarget(r) \in Targets
  /\ \A req \in OtherTypeRequests :
       \E r \in {WebhookResult(dbAvailable, appointments, req, TRUE)} :
         /\ r.did.wrote = NULL
         /\ r.did.table = appointments
         /\ r.status = 200 /\ r.body = "received"

\* an event of another type was acknowledged with the store available and
\* rows in the table
C17_Witness ==
  /\ last.op = "webhook" /\ last.type \notin HandledTypes \cup {""}
  /\ last.status = 200 /\ last.body = "received"
  /\ dbAvailable
  /\ Len(appointments) = MaxAppointments

\* C18: while the data store is unavailable, every read procedure
\* (appointments.list, stripe.getPaymentStatus, stripe.getPaymentHistory)
\* returns an empty collection to its caller instead of failing, and every
\* write procedure (appointments.create, appointments.update,
\* stripe.createCheckoutSession) surfaces a failure and changes nothing.
ReadOps == {"appointments.list", "stripe.getPaymentStatus", "stripe.getPaymentHistory"}

WriteOps == {"appointments.create", "appointments.update",
             "stripe.createCheckoutSession"}

C18_ReadsEmptyWritesFail ==
  [][ (~dbAvailable /\ last'.op \in ReadOps \cup WriteOps) =>
        /\ UNCHANGED <<appointments, userCustomer, stripeCustomers,
                       stripeSessions, trainingExamples>>
        /\ last'.op \in ReadOps => (last'.err = "" /\ last'.data = {})
        /\ last'.op \in WriteOps => last'.err # "" ]_vars

\* C19 as stated: in every step an appointment's lifecycle status changes
\* only along pending -> confirmed, confirmed -> completed, or into cancelled,
\* its paymentStatus changes only from pending to completed, failed or
\* refunded, and a cancelled or completed appointment never goes back to
\* pending or confirmed.
C19_LifecycleMonotone ==
  [][ \A a \in DOMAIN appointments :
        /\ appointments'[a].status # appointments[a].status =>
             \/ appointments'[a].status = "cancelled"
             \/ <<appointments[a].status, appointments'[a].status>> \in
                  {<<"pending", "confirmed">>, <<"confirmed", "completed">>}
        /\ appointments'[a].paymentStatus # appointments[a].paymentStatus =>
             /\ appointments[a].paymentStatus = "pending"
             /\ appointments'[a].paymentStatus \in {"completed", "failed", "refunded"}
        /\ appointments[a].status \in {"cancelled", "completed"} =>
             appointments'[a].status \notin {"pending", "confirmed"} ]_vars

\* C19, amended: whatever the appointment held before, a step changes its
\* status or paymentStatus only in one of these ways: appointments.update
\* sets the status to the supplied value and leaves paymentStatus alone; a
\* checkout-completed or payment-succeeded delivery makes it confirmed /
\* completed; a payment-failed delivery makes paymentStatus failed and leaves
\* the status alone; a refund delivery makes it cancelled / refunded.  So
\* paymentStatus never returns to pending, while a cancelled or completed
\* appointment can go back to confirmed or pending.
C19_StatusWriters ==
  [][ \A a \in DOMAIN appointments :
        ( \/ appointments'[a].status # appointments[a].status
          \/ appointments'[a].paymentStatus # appointments[a].paymentStatus ) =>
          \/ /\ last'.op = "appointments.update"
             /\ appointments'[a].status \in AppointmentStatus
             /\ appointments'[a].paymentStatus = appointments[a].paymentStatus
          \/ /\ last'.op = "webhook"
             /\ last'.type \in {"checkout.session.completed",
                                "payment_intent.succeeded"}
             /\ appointments'[a].status = "confirmed"
             /\ appointments'[a].paymentStatus = "completed"
          \/ /\ last'.op = "webhook"
             /\ last'.type = "payment_intent.payment_failed"
             /\ appointments'[a].status = appointments[a].status
             /\ appointments'[a].paymentStatus = "failed"
          \/ /\ last'.op = "webhook"
             /\ last'.type = "charge.refunded"
             /\ appointments'[a].status = "cancelled"
             /\ appointments'[a].paymentStatus = "refunded" ]_vars

\* an appointment that a refund had cancelled was put back to pending by
\* appointments.update
C19_Witness ==
  /\ last.op = "appointments.update" /\ last.err = ""
  /\ \E a \in last.data :
       /\ a \in DOMAIN appointments
       /\ appointments[a].status = "pending"
       /\ appointments[a].paymentStatus = "refunded"

\* C20: every appointment created through appointments.create is appended
\* for its caller with status = pending and paymentStatus = pending and with
\* no checkout-session id, payment-intent id or price, and
\* stripe.getPaymentStatus by the caller right after the creation reports
\* pending / pending.
C20_CreatedPending ==
  [][ (last'.op = "appointments.create" /\ last'.err = "") =>
        \E id \in last'.data :
          /\ id = Len(appointments) + 1
          /\ appointments' =
               Append(appointments,
                      [ userId                  |-> last'.caller,
                        status                  |-> "pending",
                        paymentStatus           |-> "pending",
                        stripePaymentIntentId   |-> NULL,
                        stripeCheckoutSessionId |-> NULL,
                        priceInCents            |-> NULL ])
          /\ getPaymentStatus(dbAvailable', appointments', last'.caller, id) =
               Ok("stripe.getPaymentStatus", last'.caller,
                  { [ paymentStatus     |-> "pending",
                      appointmentStatus |-> "pending",
                      priceInCents      |-> NULL ] }) ]_vars

\* an appointment was created next to one that a payment had confirmed
C20_Witness ==
  /\ last.op = "appointments.create" /\ last.err = ""
  /\ Len(appointments) = 2
  /\ appointments[1].status = "confirmed"
  /\ appointments[2].status = "pending"
  /\ appointments[2].paymentStatus = "pending"

\* C21: formatPrice(p) for a non-negative integer p of minor units is "$",
\* then p div 100 in decimal without leading zeros, a dot, and p mod 100 in
\* exactly two digits; formatPrice(2500) = "$25.00", 3000 gives "$30.00",
\* 4000 gives "$40.00"; the catalog prices are 2500, 3000 and 4000 for
\* haircut, hair_eyebrow and full_service.
Dot(str) == CHOOSE i \in 1..Len(str) : str[i] = "."

\* str is "$", digits, ".", two digits, and reads back as that amount
Shows(str, amount) ==
  /\ Len(str) >= 5 /\ str[1] = "$"
  /\ Cardinality({i \in 1..Len(str) : str[i] = "."}) = 1
  /\ Dot(str) = Len(str) - 2
  /\ \A i \in 2..Len(str) : i # Dot(str) => IsDigit(str[i])
  /\ str[2] = "0" => Dot(str) = 3
  /\ ParseDigits(SubSeq(str, 2, Dot(str) - 1), 0) = amount \div 100
  /\ ParseDigits(SubSeq(str, Dot(str) + 1, Len(str)), 0) = amount % 100

C21_FormatPrice ==
  /\ last.op = "formatPrice" => Shows(last.output, last.input)
  /\ formatPrice(2500) = <<"$", "2", "5", ".", "0", "0">>
  /\ formatPrice(3000) = <<"$", "3", "0", ".", "0", "0">>
  /\ formatPrice(4000) = <<"$", "4", "0", ".", "0", "0">>
  /\ {<<sv.id, sv.price>> : sv \in BARBERSHOP_SERVICES} =
       {<<"haircut", 2500>>, <<"hair_eyebrow", 3000>>, <<"full_service", 4000>>}

\* an amount below ten cents was formatted
C21_Witness ==
  /\ last.op = "formatPrice" /\ last.input = 5
  /\ last.output = <<"$", "0", ".", "0", "5">>

\* C22: messages are append-only and ordered: no step modifies or removes a
\* stored message, chat.sendMessage stores its content with role user in the
\* conversation it names, and chat.getMessages(c) returns exactly the
\* messages of c, and none of another conversation, in creation order.
InCreationOrder(conversationId) ==
  SelectSeq([i \in DOMAIN messages |-> i],
            LAMBDA i : messages[i].conversationId = conversationId)

C22_MessagesAppendOnlyOrdered ==
  [][ /\ \A i \in DOMAIN messages :
           i \in DOMAIN messages' /\ messages'[i] = messages[i]
      /\ (last'.op = "chat.sendMessage" /\ last'.err = "") =>
           \E content \in Contents :
             messages' = Append(messages, [conversationId |-> last'.arg,
                                           role |-> "user",
                                           content |-> content,
                                           createdAt |-> now])
      /\ (last'.op = "chat.getMessages" /\ dbAvailable) =>
           last'.data = InCreationOrder(last'.arg) ]_vars

\* C27: chat.getMessages returns, and chat.sendMessage appends to, only
\* conversations owned by the calling user: a call that names another user's
\* conversation is refused, returns none of its messages and adds no message.
C27_ConversationIsolation ==
  [][ ( /\ last'.op \in {"chat.getMessages", "chat.sendMessage"}
        /\ last'.arg \in DOMAIN conversations
        /\ conversations[last'.arg].userId # last'.caller ) =>
        /\ last'.err # ""
        /\ last'.data = <<>>
        /\ messages' = messages ]_vars

\* C23: a checkout session created by createCheckoutSession for appointment
\* a carries client_reference_id = a and metadata.appointment_id = a, and the
\* checkout.session.completed event of that session changes the row of a
\* (when its UPDATE runs) and never another row, in whatever state the store
\* is when the event arrives.
SessionAppointment(session) ==
  CHOOSE a \in AppointmentIds : session.client_reference_id = Some(toString(a))

C23_SessionCorrelatesToItsAppointment ==
  [][ /\ (last'.op = "stripe.createCheckoutSession" /\ last'.err = "") =>
           \A u \in Users, a \in AppointmentIds :
             CreateCheckoutSession(u, a, "full_service") =>
               \E session \in {stripeSessions'[Len(stripeSessions')]} :
                 /\ last'.data = {session.id}
                 /\ session.client_reference_id = Some(toString(a))
                 /\ session.appointment_id = Some(toString(a))
                 /\ SessionAppointment(session) = a
      /\ last'.op = "webhook" =>
           \A i \in DOMAIN stripeSessions :
             StripeWebhook(Signed(SessionCompleted(stripeSessions[i]))) =>
               \E a \in {SessionAppointment(stripeSessions[i])} :
                 /\ a \in DOMAIN appointments
                 /\ \A j \in DOMAIN appointments \ {a} :
                      appointments'[j] = appointments[j]
                 /\ last'.issued \in {NULL, a}
                 /\ (dbAvailable /\ ~last'.failed) =>
                      /\ last'.wrote = a
                      /\ appointments'[a] =
                           CheckoutCompletedRow(appointments[a],
                                                stripeSessions[i]) ]_vars

\* C23 as stated: every delivery of a created session's event leaves the
\* session's appointment paid
C23_EverySessionEventMutates ==
  [][ last'.op = "webhook" =>
        \A i \in DOMAIN stripeSessions :
          StripeWebhook(Signed(SessionCompleted(stripeSessions[i]))) =>
            appointments'[SessionAppointment(stripeSessions[i])] =
              CheckoutCompletedRow(appointments[SessionAppointment(stripeSessions[i])],
                                   stripeSessions[i]) ]_vars

\* the event of the second session, created for the second appointment, was
\* applied: that row is paid and the first row is still unpaid
C23_Witness ==
  /\ last.op = "webhook" /\ last.wrote = 2
  /\ Len(stripeSessions) = 2
  /\ stripeSessions[2].client_reference_id = Some(toString(2))
  /\ appointments[2].paymentStatus = "completed"
  /\ appointments[2].stripeCheckoutSessionId = 2
  /\ appointments[1].paymentStatus = "pending"
  /\ appointments[1].stripeCheckoutSessionId = 1

\* C25 as stated: once an appointment is refunded and cancelled, no webhook
\* delivery changes its paymentStatus or status
Refunded(row) == row.paymentStatus = "refunded" /\ row.status = "cancelled"

C25_RefundFinal ==
  [][ last'.op = "webhook" =>
        \A a \in DOMAIN appointments :
          Refunded(appointments[a]) => Refunded(appointments'[a]) ]_vars

\* C25, amended: once a charge.refunded event has been applied to an
\* appointment, a later charge.refunded delivery changes nothing in its row
\* and a later payment_intent.payment_failed leaves its status cancelled;
\* only checkout.session.completed and payment_intent.succeeded change the
\* status, and only they and payment_intent.payment_failed the paymentStatus.
C25_RefundFinalUnderRefundAndFailure ==
  [][ last'.op = "webhook" =>
        \A a \in DOMAIN appointments :
          Refunded(appointments[a]) =>
            /\ last'.type \notin {"checkout.session.completed",
                                  "payment_intent.succeeded"} =>
                 appointments'[a].status = "cancelled"
            /\ last'.type \notin {"checkout.session.completed",
                                  "payment_intent.succeeded",
                                  "payment_intent.payment_failed"} =>
                 appointments'[a] = appointments[a]
            /\ last'.type = "payment_intent.payment_failed" =>
                 appointments'[a].paymentStatus \in {"refunded", "failed"} ]_vars

\* a charge.refunded event was delivered again to the appointment it had
\* already refunded, which held a session id: the row is as it was
C25_Witness ==
  /\ last.op = "webhook" /\ last.type = "charge.refunded"
  /\ last.dup /\ last.wrote # NULL
  /\ Refunded(appointments[last.wrote])
  /\ appointments[last.wrote].stripeCheckoutSessionId # NULL

\* C26: once an appointment's paymentStatus is completed, a later
\* createCheckoutSession for it (with whatever serviceId) leaves its
\* stripeCheckoutSessionId and priceInCents as they were.
C26_PaidSessionKept ==
  [][ last'.op = "stripe.createCheckoutSession" =>
        \A a \in DOMAIN appointments :
          appointments[a].paymentStatus = "completed" =>
            /\ appointments'[a].stripeCheckoutSessionId =
                 appointments[a].stripeCheckoutSessionId
            /\ appointments'[a].priceInCents = appointments[a].priceInCents ]_vars

\* C28: training.updateExample changes only the fields its input supplies:
\* a call that omits active leaves the example's active flag as it was, and
\* a call that omits quality leaves its quality as it was.
C28_UpdateExampleOnlySupplied ==
  [][ (last'.op = "training.updateExample" /\ last'.err = "") =>
        \A u \in Users, x \in DOMAIN trainingExamples,
           q \in {Absent, Some("poor")}, ac \in {Absent, Some(TRUE), Some(FALSE)} :
          UpdateExample(u, x, q, ac) =>
            /\ \A y \in DOMAIN trainingExamples \ {x} :
                 trainingExamples'[y] = trainingExamples[y]
            /\ ac = Absent =>
                 trainingExamples'[x].active = trainingExamples[x].active
            /\ q = Absent =>
                 trainingExamples'[x].quality = trainingExamples[x].quality ]_vars

\* C29: handleStripeWebhook sends exactly one response per request on every
\* path: 400 for a missing or invalid signature, {verified: true} for a
\* verified test event, 200 {received: true} after the dispatch of a verified
\* live event, whether or not the handler's UPDATE succeeded; and a rejected
\* request starts no appointment mutation.
C29_OneResponsePerRequest ==
  /\ last.op = "webhook" =>
       /\ Len(last.sent) = 1
       /\ last.sent[1] = [status |-> last.status, body |-> last.body]
       /\ last.status = 400 => (last.issued = NULL /\ last.wrote = NULL)
  /\ \A req \in WebhookRequests, ok \in BOOLEAN :
       LET sent == Sends(dbAvailable, appointments, req, ok)
           done == WebhookResult(dbAvailable, appointments, req, ok)
       IN /\ Len(sent) = 1
          /\ sent[1] = [status |-> done.status, body |-> done.body]
          /\ sent[1] = IF ~GoodSignature(req)
                         THEN [status |-> 400, body |-> "error"]
                       ELSE IF IsTest(req)
                         THEN [status |-> 200, body |-> "verified"]
                         ELSE [status |-> 200, body |-> "received"]
          /\ sent[1].status = 400 =>
               (done.did.table = appointments /\ done.did.wrote = NULL)

\* a request with a bad signature was answered 400 after an earlier delivery
\* had paid the appointment it names: one response, and the row is still paid
C29_Witness ==
  /\ last.op = "webhook" /\ last.type = ""
  /\ last.sent = <<[status |-> 400, body |-> "error"]>>
  /\ Len(appointments) = 1
  /\ appointments[1].paymentStatus = "completed"

\* C30: the Chat page starts a conversation only if the signed-in user has
\* none: loaded for a user with an existing conversation it issues no
\* startConversation call, also while the list is still loading, and for a
\* user without one it issues at most one call before a conversation id
\* is set.
C30_StartsOnlyWhenNone ==
  page.open =>
    /\ page.existing > 0 => page.issued = 0
    /\ (page.existing = 0 /\ page.conversationId = NULL) => page.issued <= 1

\* C24: with the provider redelivering an event until it is answered 2xx and
\* store failures transient, every verified checkout.session.completed or
\* payment_intent.succeeded event with the key of an existing appointment
\* eventually leaves that appointment with paymentStatus = completed and
\* status = confirmed.
C24_EventuallyPaid ==
  \A a \in Targets : \A e \in PaidEvents(a) :
    (e \in {o.event : o \in outbox}) ~> ( /\ a \in DOMAIN appointments
                        /\ appointments[a].paymentStatus = "completed"
                        /\ appointments[a].status = "confirmed" )

====
